---- MODULE Spec2Model ----
(***************************************************************************)
(* A model of gamesweet's Monte Carlo tree search (src/ai/mcts.rs): the    *)
(* arena tree, select / expand / simulate / backprop, and the time-bounded *)
(* loop of `run` with its final choice.  The game the search runs on is a  *)
(* small take-away game implementing the Game trait of src/lib.rs.         *)
(***************************************************************************)
EXTENDS Integers, Sequences, FiniteSets

(***************************************************************************)
(* Bounds of the model.                                                    *)
(***************************************************************************)
\* Largest pile of the take-away game the search is started on.
MaxPile == 4
\* Loop iterations one invocation of run() may start before the clock must move.
MaxIters == 14
\* Milliseconds by which the wall clock advances in one step.
TickMs == 995
\* Largest pile of the searches whose termination is checked.
FairPile == 3

(***************************************************************************)
(* Program constants (mcts.rs lines 10-12).                                *)
(***************************************************************************)
DURATION == 995
THRESHOLD == 3
\* EXPLORE = 1.414, in thousandths.
EXPLORE == 1414
\* usize::MAX, the root's parent: read as its two's complement value, it is
\* the one handle no arena holds.
USIZE_MAX == -1
\* f64::INFINITY in the fixed-point scale of priority().
INFINITY == 2147483647
\* Option::None, for Option<G::Turn> and Option<G::Player> (turns and players
\* are numbered from 1).
None == 0

(***************************************************************************)
(* The Game trait (lib.rs lines 11-28), implemented by a take-away game:   *)
(* a pile of stones, two players who alternately take 1 to 3 stones.      *)
(*   kind "nim"   : the player who takes the last stone wins;              *)
(*   kind "drawn" : every finished game is a tie (winner() is None);       *)
(*   kind "stuck" : a broken game whose empty pile is not over(), so that  *)
(*                  turns() is empty on a state that is not terminal.      *)
(***************************************************************************)
Players == {1, 2}
Kinds == {"nim", "drawn", "stuck"}
Takes == <<1, 2, 3>>
GameStates == [pile : 0..MaxPile, player : Players, kind : Kinds]

\* Game::player
GamePlayer(g) == g.player

\* Game::turns: the legal turns, in enumeration order.
GameTurns(g) == SelectSeq(Takes, LAMBDA t : t <= g.pile)

\* Game::play on a copy of g: the state after the turn (an illegal turn is
\* rejected and leaves the state as it is).
GamePlay(g, t) ==
    IF t \in {1, 2, 3} /\ t <= g.pile
    THEN [g EXCEPT !.pile = g.pile - t, !.player = 3 - g.player]
    ELSE g

\* Game::over
GameOver(g) == g.pile = 0 /\ g.kind # "stuck"

\* Game::winner: the player who moved last, or None for a tie.
GameWinner(g) == IF g.kind = "nim" THEN 3 - g.player ELSE None

(***************************************************************************)
(* State.                                                                  *)
(***************************************************************************)
VARIABLES
    game,       \* the caller's state, borrowed by run(&game)
    arena,      \* Tree::arena, a sequence of Nodes; handle i is arena[i + 1]
    pc,         \* the position of run()
    elapsed,    \* now.elapsed().as_millis()
    iters,      \* loop iterations completed
    node,       \* select()'s cursor
    leaf,       \* run()'s `leaf`
    state,      \* simulate()'s copy of the state
    winner,     \* the result of simulate(), then backprop()'s argument
    idx,        \* backprop()'s cursor
    result,     \* the turn returned by run()
    expands,    \* history: handle -> number of expand() calls on it
    before,     \* history: the arena as it was when backprop() was called
    main        \* Game::main: its `self`, its config and its position

vars == <<game, arena, pc, elapsed, iters, node, leaf, state, winner, idx,
          result, expands, before, main>>

\* Tree::root
root == 0

\* impl Index<usize> for Tree
At(a, i) == a[i + 1]

Handles(a) == 0..(Len(a) - 1)

\* Node::new
NewNode(i, parent, st, action) ==
    [idx |-> i, parent |-> parent, children |-> <<>>, state |-> st,
     action |-> action, wins |-> 0, sims |-> 0]

\* Tree::new
TreeNew(st) == <<NewNode(0, USIZE_MAX, st, None)>>

\* The state after the first k turns of ts are played on g one after another.
RECURSIVE PlayAll(_, _, _)
PlayAll(g, ts, k) == IF k = 0 THEN g ELSE GamePlay(PlayAll(g, ts, k - 1), ts[k])

\* A faulty variant of Expand: the turns are played on the node's own state, which is
\* not cloned first.
ExpandInPlace(a, i) ==
    LET st == At(a, i).state
        ts == GameTurns(st)
        n  == Len(a)
        kids == [k \in 1..Len(ts) |->
                    NewNode(n + k - 1, i, PlayAll(st, ts, k), ts[k])]
        hs == [k \in 1..Len(ts) |-> n + k - 1]
    IN  [a EXCEPT ![i + 1].children = @ \o hs,
                  ![i + 1].state = PlayAll(st, ts, Len(ts))] \o kids

\* A faulty variant of Expand: the children are created without their turn.
ExpandNoAction(a, i) ==
    LET st == At(a, i).state
        ts == GameTurns(st)
        n  == Len(a)
        kids == [k \in 1..Len(ts) |->
                    NewNode(n + k - 1, i, GamePlay(st, ts[k]), None)]
        hs == [k \in 1..Len(ts) |-> n + k - 1]
    IN  [a EXCEPT ![i + 1].children = @ \o hs] \o kids

\* A faulty variant of Expand: the turn is not played on the child's copy of
\* the state.
ExpandNoPlay(a, i) ==
    LET st == At(a, i).state
        ts == GameTurns(st)
        n  == Len(a)
        kids == [k \in 1..Len(ts) |-> NewNode(n + k - 1, i, st, ts[k])]
        hs == [k \in 1..Len(ts) |-> n + k - 1]
    IN  [a EXCEPT ![i + 1].children = @ \o hs] \o kids

\* Tree::expand: one child per legal turn of the node's state, in the order
\* of turns(), each holding a copy of the state with the turn played; the
\* children's handles are pushed onto the node's children.
Expand(a, i) ==
    LET st == At(a, i).state
        ts == GameTurns(st)
        n  == Len(a)
        kids == [k \in 1..Len(ts) |->
                    NewNode(n + k - 1, i, GamePlay(st, ts[k]), ts[k])]
        hs == [k \in 1..Len(ts) |-> n + k - 1]
    IN  [a EXCEPT ![i + 1].children = @ \o hs] \o kids

(***************************************************************************)
(* Node::priority, in fixed point: a finite value is floor(x * 10^8).      *)
(***************************************************************************)
\* f64::ln of 1..20, as floor(ln(p) * 10^8).
LnTable == <<0, 69314718, 109861228, 138629436, 160943791, 179175946, 194591014, 207944154, 219722457, 230258509, 239789527, 248490664, 256494935, 263905732, 270805020, 277258872, 283321334, 289037175, 294443897, 299573227>>

\* The integer square root of x, by bisection of lo..hi.
ISqrtIn[x \in Nat, lo \in Nat, hi \in Nat] ==
    IF lo >= hi THEN lo
    ELSE LET mid == (lo + hi + 1) \div 2
         IN  IF mid * mid <= x THEN ISqrtIn[x, mid, hi]
                               ELSE ISqrtIn[x, lo, mid - 1]

\* f64::sqrt on x * 10^8, giving sqrt(x) * 10^8: the integer root and one
\* Newton correction for the next four digits.
Sqrt(x) ==
    IF x = 0 THEN 0
    ELSE LET r == ISqrtIn[x, 1, 46340]
         IN  r * 10000 + ((x - r * r) * 10000) \div (2 * r)

\* EXPLORE * x
TimesExplore(x) == (x \div 1000) * EXPLORE + ((x % 1000) * EXPLORE) \div 1000

\* A faulty variant of Priority: a sum that is not finite counts as 0.
PriorityZero(n, psims) ==
    IF n.sims = 0 \/ psims = 0 THEN 0
    ELSE LET exploit == (n.wins * 100000000) \div n.sims
             explore == TimesExplore(Sqrt(LnTable[psims] \div n.sims))
         IN  exploit + explore

\* Node::priority(&self, psims).  wins / sims is NaN or infinite when sims
\* is 0, and ln(0) is -inf, whose square root is NaN: neither sum is finite.
Priority(n, psims) ==
    IF n.sims = 0 \/ psims = 0 THEN INFINITY
    ELSE LET exploit == (n.wins * 100000000) \div n.sims
             explore == TimesExplore(Sqrt(LnTable[psims] \div n.sims))
         IN  exploit + explore

\* Iterator::max_by over keys: the position of the maximum; of several equal
\* maxima the last one (max_by keeps the accumulator only when it compares
\* Greater than the next element).
RECURSIVE MaxByFrom(_, _, _)
MaxByFrom(keys, best, k) ==
    IF k > Len(keys) THEN best
    ELSE MaxByFrom(keys, IF keys[best] > keys[k] THEN best ELSE k, k + 1)

MaxBy(keys) == MaxByFrom(keys, 1, 2)

\* The first of several equal maxima.
RECURSIVE MaxFirstFrom(_, _, _)
MaxFirstFrom(keys, best, k) ==
    IF k > Len(keys) THEN best
    ELSE MaxFirstFrom(keys, IF keys[k] > keys[best] THEN k ELSE best, k + 1)

\* A faulty variant of SelectChild: of several children of the highest
\* priority, the first.
SelectChildFirst(a, n) ==
    LET cs == At(a, n).children
        keys == [k \in 1..Len(cs) |->
                    Priority(At(a, cs[k]), At(a, At(a, cs[k]).parent).sims)]
    IN  cs[MaxFirstFrom(keys, 1, 2)]

\* A faulty variant of SelectChild: the first child, whatever the priorities.
SelectChildHead(a, n) == Head(At(a, n).children)

\* The child select() descends into from node n (mcts.rs lines 98-110).
SelectChild(a, n) ==
    LET cs == At(a, n).children
        keys == [k \in 1..Len(cs) |->
                    Priority(At(a, cs[k]), At(a, At(a, cs[k]).parent).sims)]
    IN  cs[MaxBy(keys)]

\* Iterator::min_by over keys: of several equal minima the first one.
RECURSIVE MinByFrom(_, _, _)
MinByFrom(keys, best, k) ==
    IF k > Len(keys) THEN best
    ELSE MinByFrom(keys, IF keys[best] > keys[k] THEN k ELSE best, k + 1)

\* A faulty variant of Best: the least simulated child.
BestMin(a) ==
    LET cs == At(a, root).children
        keys == [k \in 1..Len(cs) |-> At(a, cs[k]).sims]
    IN  cs[MinByFrom(keys, 1, 2)]

\* A faulty variant of Best: of several most simulated children, the first.
BestFirst(a) ==
    LET cs == At(a, root).children
        keys == [k \in 1..Len(cs) |-> At(a, cs[k]).sims]
    IN  cs[MaxFirstFrom(keys, 1, 2)]

\* The most simulated child of the root (mcts.rs lines 53-68).
Best(a) ==
    LET cs == At(a, root).children
        keys == [k \in 1..Len(cs) |-> At(a, cs[k]).sims]
    IN  cs[MaxBy(keys)]

\* A faulty variant of EffWinner: a tie is booked for the root's opponent.
EffWinnerOpponent(a, w) ==
    IF w = None THEN 3 - GamePlayer(At(a, root).state) ELSE w

\* backprop()'s winner: the simulation's, or the root's player for a tie.
EffWinner(a, w) == IF w = None THEN GamePlayer(At(a, root).state) ELSE w

\* A faulty variant of Update: sims is counted only when wins is not.
UpdateSimsOnLoss(a, i, w) ==
    IF w # GamePlayer(At(a, i).state)
    THEN [a EXCEPT ![i + 1].wins = @ + 1]
    ELSE [a EXCEPT ![i + 1].sims = @ + 1]

\* A faulty variant of Update: sims is counted inside the test, with wins.
UpdateSimsOnWin(a, i, w) ==
    IF w # GamePlayer(At(a, i).state)
    THEN [a EXCEPT ![i + 1].wins = @ + 1, ![i + 1].sims = @ + 1]
    ELSE a

\* A faulty variant of Update: the children of node i are counted a
\* simulation along with it.
UpdateWithChildren(a, i, w) ==
    [j \in 1..Len(a) |->
        IF j = i + 1
        THEN [a[j] EXCEPT !.wins = IF w # GamePlayer(a[j].state) THEN @ + 1 ELSE @,
                          !.sims = @ + 1]
        ELSE IF a[j].parent = i THEN [a[j] EXCEPT !.sims = @ + 1]
        ELSE a[j]]

\* One round of backprop()'s loop on node i (mcts.rs lines 145-153).
Update(a, i, w) ==
    [a EXCEPT ![i + 1].wins = IF w # GamePlayer(At(a, i).state) THEN @ + 1 ELSE @,
              ![i + 1].sims = @ + 1]

\* A faulty variant of ShouldExpand: one simulation more is asked for.
ShouldExpandLate(n) == n.sims > THRESHOLD + 1

\* A faulty variant of ShouldExpand: the threshold itself is enough.
ShouldExpandAt(n) == n.sims >= THRESHOLD

\* The test of mcts.rs line 35.
ShouldExpand(n) == n.sims > THRESHOLD

\* The loop condition of mcts.rs line 30.
InBudget(ms) == ms < DURATION

\* expand() was called on handle i, which created `made` nodes.
Expanded(e, i, made) ==
    [e EXCEPT ![i + 1] = @ + 1] \o [k \in 1..made |-> 0]

(***************************************************************************)
(* Game::main and Config (lib.rs lines 31-72).  A policy is a TurnFn: the  *)
(* search of this module ("mcts"), ai::rand::run ("rand"), or any other    *)
(* function from a state to a turn ("other", such as a prompt), which may  *)
(* answer with a turn that play() rejects.                                 *)
(***************************************************************************)
Policies == {"mcts", "rand", "other"}

\* The values of G::Player a Config may name: the two players that move and
\* one that never does.
ConfigPlayers == Players \cup {3}

\* Config::new: two (player, policy) pairs; it asserts the players differ.
Configs ==
    {c \in [player1 : ConfigPlayers \X Policies,
            player2 : ConfigPlayers \X Policies] :
        c.player1[1] # c.player2[1]}

\* Game::play's result: whether the turn is accepted.
GamePlayOk(g, t) == t \in {1, 2, 3} /\ t <= g.pile

\* A faulty variant of ConfigTurn: the two entries are looked up crosswise.
ConfigTurnSwapped(c, g) ==
    IF c.player1[1] = GamePlayer(g) THEN 2
    ELSE IF c.player2[1] = GamePlayer(g) THEN 1
    ELSE 0

\* Config::turn: the entry (1 or 2) whose policy is called for the state's
\* player; 0 when neither entry names that player, and turn() panics.
ConfigTurn(c, g) ==
    IF c.player1[1] = GamePlayer(g) THEN 1
    ELSE IF c.player2[1] = GamePlayer(g) THEN 2
    ELSE 0

\* The policy of entry e.
PolicyOf(c, e) == IF e = 1 THEN c.player1[2] ELSE c.player2[2]

\* The turns policy f may answer on state g.  ai::rand::run chooses among
\* turns(); ai::mcts::run returns the turn of a root child, one of turns().
PolicyTurns(f, g) ==
    IF f = "other" THEN {Takes[k] : k \in 1..Len(Takes)}
    ELSE {GameTurns(g)[k] : k \in 1..Len(GameTurns(g))}

\* Whether policy f may panic on state g: ai::rand::run unwraps choose() of
\* no turns; ai::mcts::run panics on no turns, and in a playout that meets a
\* state that is not over and has no turns.
PolicyMayPanic(f, g) ==
    \/ f # "other" /\ GameTurns(g) = <<>>
    \/ f = "mcts" /\ Len(GameTurns(g)) > 1 /\ g.kind = "stuck"

\* Game::main is not running.
MainIdle(g) ==
    [game |-> g, config |-> [player1 |-> <<1, "mcts">>, player2 |-> <<2, "mcts">>],
     pc |-> "idle", turn |-> None, asked |-> None, printed |-> "", who |-> None]

(***************************************************************************)
(* Init: run() has not been called; the caller holds any state of the game.*)
(***************************************************************************)
Init ==
    /\ game \in GameStates
    /\ arena = <<>>
    /\ pc = "start"
    /\ elapsed = 0
    /\ iters = 0
    /\ node = USIZE_MAX
    /\ leaf = USIZE_MAX
    /\ state = game
    /\ winner = None
    /\ idx = USIZE_MAX
    /\ result = None
    /\ expands = <<>>
    /\ before = <<>>
    /\ main = MainIdle(game)

(***************************************************************************)
(* run(), step by step.                                                    *)
(***************************************************************************)
\* mcts.rs lines 17-21: take the time, clone the game, create the tree.
TreeCreate ==
    /\ pc = "start"
    /\ arena' = TreeNew(game)
    /\ expands' = <<0>>
    /\ pc' = "expand_root"
    /\ UNCHANGED <<game, elapsed, iters, node, leaf, state, winner, idx, result,
                   before, main>>

\* A faulty variant of ExpandRoot: no early return for a root with one child.
ExpandRootNoReturn ==
    /\ pc = "expand_root"
    /\ arena' = Expand(arena, root)
    /\ expands' = Expanded(expands, root, Len(Expand(arena, root)) - Len(arena))
    /\ pc' = "loop"
    /\ UNCHANGED <<game, elapsed, iters, node, leaf, state, winner, idx, result,
                   before, main>>

\* mcts.rs lines 22-28: expand the root; with one child, return its turn.
ExpandRoot ==
    /\ pc = "expand_root"
    /\ LET a == Expand(arena, root)
           cs == At(a, root).children
       IN  /\ arena' = a
           /\ expands' = Expanded(expands, root, Len(a) - Len(arena))
           /\ IF Len(cs) = 1
              THEN /\ result' = At(a, cs[1]).action
                   /\ pc' = "done"
              ELSE /\ result' = result
                   /\ pc' = "loop"
    /\ UNCHANGED <<game, elapsed, iters, node, leaf, state, winner, idx,
                   before, main>>

\* mcts.rs line 30, the budget is not spent: select() starts at the root.
LoopEnter ==
    /\ pc = "loop"
    /\ InBudget(elapsed)
    /\ iters < MaxIters
    /\ pc' = "select"
    /\ node' = root
    /\ UNCHANGED <<game, arena, elapsed, iters, leaf, state, winner, idx,
                   result, expands, before, main>>

\* mcts.rs line 30, the budget is spent.
LoopExit ==
    /\ pc = "loop"
    /\ ~InBudget(elapsed)
    /\ pc' = "best"
    /\ UNCHANGED <<game, arena, elapsed, iters, node, leaf, state, winner,
                   idx, result, expands, before, main>>

\* mcts.rs lines 95-112: one round of select()'s loop.
SelectDescend ==
    /\ pc = "select"
    /\ At(arena, node).children # <<>>
    /\ node' = SelectChild(arena, node)
    /\ UNCHANGED <<game, arena, pc, elapsed, iters, leaf, state, winner, idx,
                   result, expands, before, main>>

\* A faulty variant of SelectReturn: select() may stop at a node that has children.
SelectReturnAnywhere ==
    /\ pc = "select"
    /\ leaf' = At(arena, node).idx
    /\ node' = USIZE_MAX
    /\ IF ShouldExpand(At(arena, node))
       THEN /\ pc' = "expand"
            /\ state' = state
       ELSE /\ pc' = "simulate"
            /\ state' = At(arena, node).state
    /\ UNCHANGED <<game, arena, elapsed, iters, winner, idx, result, expands,
                   before, main>>

\* mcts.rs lines 114, 32, 35 and 44: select() returns the leaf; it is
\* expanded next, or simulated as it is.
SelectReturn ==
    /\ pc = "select"
    /\ At(arena, node).children = <<>>
    /\ leaf' = At(arena, node).idx
    /\ node' = USIZE_MAX
    /\ IF ShouldExpand(At(arena, node))
       THEN /\ pc' = "expand"
            /\ state' = state
       ELSE /\ pc' = "simulate"
            /\ state' = At(arena, node).state
    /\ UNCHANGED <<game, arena, elapsed, iters, winner, idx, result, expands,
                   before, main>>

\* A faulty variant of ExpandLeaf: the expanded leaf itself is simulated.
ExpandLeafStays ==
    /\ pc = "expand"
    /\ arena' = Expand(arena, leaf)
    /\ expands' = Expanded(expands, leaf, Len(arena') - Len(arena))
    /\ leaf' = leaf
    /\ state' = At(arena, leaf).state
    /\ pc' = "simulate"
    /\ UNCHANGED <<game, elapsed, iters, node, winner, idx, result, before, main>>

\* mcts.rs lines 36-40 and 44: expand the leaf and move to one of its
\* children at random (to the leaf itself when it has none).
ExpandLeaf ==
    /\ pc = "expand"
    /\ LET a == Expand(arena, leaf)
           cs == At(a, leaf).children
       IN  /\ arena' = a
           /\ expands' = Expanded(expands, leaf, Len(a) - Len(arena))
           /\ \E l \in IF cs = <<>> THEN {leaf} ELSE {cs[k] : k \in 1..Len(cs)} :
                 /\ leaf' = l
                 /\ state' = At(a, l).state
    /\ pc' = "simulate"
    /\ UNCHANGED <<game, elapsed, iters, node, winner, idx, result, before, main>>

\* A faulty variant of SimulatePlay: the turn is played on a fresh clone of
\* the state, which is dropped.
SimulatePlayDropped ==
    /\ pc = "simulate"
    /\ ~GameOver(state)
    /\ GameTurns(state) # <<>>
    /\ state' = state
    /\ UNCHANGED <<game, arena, pc, elapsed, iters, node, leaf, winner, idx,
                   result, expands, before, main>>

\* mcts.rs lines 209-217: one random turn of the playout.
SimulatePlay ==
    /\ pc = "simulate"
    /\ ~GameOver(state)
    /\ GameTurns(state) # <<>>
    /\ \E k \in 1..Len(GameTurns(state)) :
          state' = GamePlay(state, GameTurns(state)[k])
    /\ UNCHANGED <<game, arena, pc, elapsed, iters, node, leaf, winner, idx,
                   result, expands, before, main>>

\* mcts.rs lines 211-214: choose() on no turns is None, and unwrap() panics.
SimulatePanic ==
    /\ pc = "simulate"
    /\ ~GameOver(state)
    /\ GameTurns(state) = <<>>
    /\ pc' = "panic"
    /\ UNCHANGED <<game, arena, elapsed, iters, node, leaf, state, winner,
                   idx, result, expands, before, main>>

\* mcts.rs lines 219 and 47: the playout is over; backprop() starts at leaf.
SimulateReturn ==
    /\ pc = "simulate"
    /\ GameOver(state)
    /\ winner' = GameWinner(state)
    /\ idx' = leaf
    /\ pc' = "backprop"
    /\ before' = arena
    /\ UNCHANGED <<game, arena, elapsed, iters, node, leaf, state, result,
                   expands, main>>

\* mcts.rs lines 144-157: one round of backprop()'s loop.
BackpropStep ==
    /\ pc = "backprop"
    /\ idx # At(arena, root).parent
    /\ arena' = Update(arena, idx, EffWinner(arena, winner))
    /\ idx' = At(arena, idx).parent
    /\ UNCHANGED <<game, pc, elapsed, iters, node, leaf, state, winner,
                   result, expands, before, main>>

\* mcts.rs lines 144 and 48: backprop() is past the root; the iteration ends.
BackpropReturn ==
    /\ pc = "backprop"
    /\ idx = At(arena, root).parent
    /\ pc' = "loop"
    /\ iters' = iters + 1
    /\ leaf' = USIZE_MAX
    /\ winner' = None
    /\ state' = game
    /\ before' = <<>>
    /\ UNCHANGED <<game, arena, elapsed, node, idx, result, expands, main>>

\* mcts.rs lines 53-71: return the turn of the most simulated root child.
BestReturn ==
    /\ pc = "best"
    /\ At(arena, root).children # <<>>
    /\ result' = At(arena, Best(arena)).action
    /\ pc' = "done"
    /\ UNCHANGED <<game, arena, elapsed, iters, node, leaf, state, winner,
                   idx, expands, before, main>>

\* A faulty variant of BestPanic: with no children the root itself is taken
\* for the best node, and its (absent) turn is returned.
BestPanicReturns ==
    /\ pc = "best"
    /\ At(arena, root).children = <<>>
    /\ result' = At(arena, root).action
    /\ pc' = "done"
    /\ UNCHANGED <<game, arena, elapsed, iters, node, leaf, state, winner,
                   idx, expands, before, main>>

\* mcts.rs lines 66-67: max_by() of no children is None, and unwrap() panics.
BestPanic ==
    /\ pc = "best"
    /\ At(arena, root).children = <<>>
    /\ pc' = "panic"
    /\ UNCHANGED <<game, arena, elapsed, iters, node, leaf, state, winner,
                   idx, result, expands, before, main>>

\* The wall clock read by now.elapsed() moves on while run() is at work.
Tick ==
    /\ pc \notin {"start", "done", "panic"}
    /\ InBudget(elapsed)
    /\ elapsed' = elapsed + TickMs
    /\ UNCHANGED <<game, arena, pc, iters, node, leaf, state, winner, idx,
                   result, expands, before, main>>

(***************************************************************************)
(* Game::main, step by step.                                               *)
(***************************************************************************)
mctsVars == <<game, arena, pc, elapsed, iters, node, leaf, state, winner,
              idx, result, expands, before>>

\* Game::main is called on any state with any Config.
MainInit ==
    /\ \E g \in GameStates, c \in Configs :
          main = [MainIdle(g) EXCEPT !.config = c, !.pc = "check"]
    /\ game = main.game
    /\ arena = <<>>
    /\ pc = "start"
    /\ elapsed = 0
    /\ iters = 0
    /\ node = USIZE_MAX
    /\ leaf = USIZE_MAX
    /\ state = game
    /\ winner = None
    /\ idx = USIZE_MAX
    /\ result = None
    /\ expands = <<>>
    /\ before = <<>>

\* lib.rs lines 32-33: the game is not over; it is printed, a turn is due.
MainContinue ==
    /\ main.pc = "check"
    /\ ~GameOver(main.game)
    /\ main' = [main EXCEPT !.pc = "ask"]
    /\ UNCHANGED mctsVars

\* lib.rs lines 32 and 40: the game is over; the loop is left.
MainOver ==
    /\ main.pc = "check"
    /\ GameOver(main.game)
    /\ main' = [main EXCEPT !.pc = "report"]
    /\ UNCHANGED mctsVars

\* lib.rs lines 35 and 63-67: config.turn(&self) calls the policy of the
\* entry that names the state's player, which answers with a turn.
MainAsk ==
    /\ main.pc = "ask"
    /\ LET e == ConfigTurn(main.config, main.game) IN
       /\ e # 0
       /\ \E t \in PolicyTurns(PolicyOf(main.config, e), main.game) :
             main' = [main EXCEPT !.pc = "play", !.asked = e, !.turn = t]
    /\ UNCHANGED mctsVars

\* lib.rs lines 68-70: no entry names the state's player; or the policy
\* called panics.
MainPanic ==
    /\ main.pc = "ask"
    /\ LET e == ConfigTurn(main.config, main.game) IN
       \/ e = 0
       \/ /\ e # 0
          /\ PolicyMayPanic(PolicyOf(main.config, e), main.game)
    /\ main' = [main EXCEPT !.pc = "panic"]
    /\ UNCHANGED mctsVars

\* lib.rs line 35: play() accepts the turn; the inner loop is left.
MainPlayAccepted ==
    /\ main.pc = "play"
    /\ GamePlayOk(main.game, main.turn)
    /\ main' = [main EXCEPT !.game = GamePlay(main.game, main.turn),
                            !.pc = "check", !.turn = None, !.asked = None]
    /\ UNCHANGED mctsVars

\* lib.rs lines 35-36: play() rejects the turn; the error is logged and
\* another turn is asked for.
MainPlayRejected ==
    /\ main.pc = "play"
    /\ ~GamePlayOk(main.game, main.turn)
    /\ main' = [main EXCEPT !.game = GamePlay(main.game, main.turn),
                            !.pc = "ask", !.turn = None, !.asked = None]
    /\ UNCHANGED mctsVars

\* lib.rs lines 40-44: the final state is printed, then the winner or a tie.
MainReport ==
    /\ main.pc = "report"
    /\ main' = [main EXCEPT !.pc = "end",
                            !.who = GameWinner(main.game),
                            !.printed = IF GameWinner(main.game) = None
                                        THEN "tie" ELSE "winner"]
    /\ UNCHANGED mctsVars

MainNext ==
    \/ MainContinue
    \/ MainOver
    \/ MainAsk
    \/ MainPanic
    \/ MainPlayAccepted
    \/ MainPlayRejected
    \/ MainReport

MainSpec == MainInit /\ [][MainNext]_vars

Next ==
    \/ TreeCreate
    \/ ExpandRoot
    \/ LoopEnter
    \/ LoopExit
    \/ SelectDescend
    \/ SelectReturn
    \/ ExpandLeaf
    \/ SimulatePlay
    \/ SimulatePanic
    \/ SimulateReturn
    \/ BackpropStep
    \/ BackpropReturn
    \/ BestReturn
    \/ BestPanic
    \/ Tick

Spec == Init /\ [][Next]_vars

\* The searches started on a pile of at most FairPile.
FairInit == Init /\ game.pile <= FairPile

\* run() keeps executing and the wall clock keeps advancing.
FairSpec == FairInit /\ [][Next]_vars /\ WF_vars(Next) /\ WF_vars(Tick)

(***************************************************************************)
(* Properties.                                                             *)
(***************************************************************************)
Nodes == {At(arena, i) : i \in Handles(arena)}

\* The root's children, once the tree exists.
RootKids == IF arena = <<>> THEN <<>> ELSE At(arena, root).children

Range(seq) == {seq[k] : k \in 1..Len(seq)}

RECURSIVE SumSims(_, _)
SumSims(a, cs) ==
    IF cs = <<>> THEN 0 ELSE At(a, Head(cs)).sims + SumSims(a, Tail(cs))

\* The k-th root child is one of the most simulated.
IsMaxAt(k) ==
    \A j \in 1..Len(RootKids) :
        At(arena, RootKids[j]).sims <= At(arena, RootKids[k]).sims

\* C1: in every tree state of a search (after the tree is created, after
\* every expansion, selection, playout and backprop round), every node of
\* the arena has wins <= sims.
C1_WinsLeSims == \A n \in Nodes : n.wins <= n.sims

\* C1 witness: in a game whose every playout is a tie, a child of the root
\* has been credited a win in each of its several simulations, and a node
\* below it in none of its own.
C1_Witness ==
    /\ game.kind = "drawn"
    /\ pc = "loop"
    /\ \E n \in Nodes : n.parent = root /\ n.sims >= 2 /\ n.wins = n.sims
    /\ \E n \in Nodes : n.parent \notin {USIZE_MAX, root}
                        /\ n.sims >= 1 /\ n.wins = 0

\* C2: when run() returns after the budget has elapsed, from a root with at
\* least two children, the returned turn is the turn of a root child that no
\* other root child exceeds in sims.
C2_BestIsMostSimulated ==
    (pc = "done" /\ Len(RootKids) >= 2) =>
        /\ ~InBudget(elapsed)
        /\ \E k \in 1..Len(RootKids) :
              /\ IsMaxAt(k)
              /\ result = At(arena, RootKids[k]).action

\* C2 witness: run() has returned the turn of a child that is neither the
\* first nor the last of three children with different sims.
C2_Witness ==
    /\ pc = "done"
    /\ Len(RootKids) = 3
    /\ result = At(arena, RootKids[2]).action
    /\ At(arena, RootKids[2]).sims > At(arena, RootKids[1]).sims
    /\ At(arena, RootKids[2]).sims > At(arena, RootKids[3]).sims

\* C3 as claimed: when several root children share the maximal sims, run()
\* returns the turn of the first of them in the children sequence (stated
\* for searches that completed at least one iteration).
C3_FirstOfTies ==
    (pc = "done" /\ Len(RootKids) >= 2 /\ iters > 0) =>
        \E k \in 1..Len(RootKids) :
            /\ IsMaxAt(k)
            /\ \A j \in 1..(k - 1) : ~IsMaxAt(j)
            /\ result = At(arena, RootKids[k]).action

\* C3 as amended: when several root children share the maximal sims, run()
\* returns the turn of the last of them in the children sequence (max_by
\* returns the last of equal maxima).
C3_LastOfTies ==
    (pc = "done" /\ Len(RootKids) >= 2) =>
        \E k \in 1..Len(RootKids) :
            /\ IsMaxAt(k)
            /\ \A j \in (k + 1)..Len(RootKids) : ~IsMaxAt(j)
            /\ result = At(arena, RootKids[k]).action

\* C3 witness: run() has returned with two simulated root children tied for
\* the maximum and a third, last child behind them.
C3_Witness ==
    /\ pc = "done"
    /\ Len(RootKids) = 3
    /\ At(arena, RootKids[1]).sims = At(arena, RootKids[2]).sims
    /\ At(arena, RootKids[1]).sims > At(arena, RootKids[3]).sims
    /\ At(arena, RootKids[3]).sims > 0

\* C4: on a state with exactly one legal turn, run() returns that turn right
\* after the root's expansion: the loop is never entered, nothing is
\* selected, simulated or backpropagated, and every node keeps wins = 0 and
\* sims = 0.
C4_SingleTurn ==
    Len(GameTurns(game)) = 1 =>
        /\ pc \in {"start", "expand_root", "done"}
        /\ iters = 0
        /\ node = USIZE_MAX /\ leaf = USIZE_MAX /\ idx = USIZE_MAX
        /\ \A n \in Nodes : n.wins = 0 /\ n.sims = 0
        /\ pc = "done" => /\ result = GameTurns(game)[1]
                          /\ Len(arena) = 2

\* C4 witness: run() has returned on a state with one legal turn.
C4_Witness == pc = "done" /\ Len(GameTurns(game)) = 1

\* C5: the turn run() returns is one of turns() of the caller's state, and
\* the caller's state is never modified: the root holds a copy equal to it,
\* which the expansions leave as it is.
C5_LegalTurnCallerUntouched ==
    /\ [](pc = "done" => result \in Range(GameTurns(game)))
    /\ [](arena # <<>> => At(arena, root).state = game)
    /\ [][game' = game]_vars

\* C5 witness: run() has returned after a search that expanded nodes below
\* the root.
C5_Witness ==
    /\ pc = "done"
    /\ iters >= 5
    /\ Len(arena) > 1 + Len(RootKids)
    /\ result \in Range(GameTurns(game))

\* C6 as claimed: whenever a node is about to be expanded, its sims exceeds
\* THRESHOLD.
C6_EveryExpansionAboveThreshold ==
    /\ pc = "expand_root" => At(arena, root).sims > THRESHOLD
    /\ pc = "expand" => At(arena, leaf).sims > THRESHOLD

\* C6 as amended: the root is expanded once with sims = 0, when the tree is
\* created; every other expansion (those of the loop) is of a node whose
\* sims exceeds THRESHOLD.
C6_LoopExpansionAboveThreshold ==
    /\ pc = "expand_root" => At(arena, root).sims = 0 /\ expands[root + 1] = 0
    /\ pc = "expand" => At(arena, leaf).sims > THRESHOLD
    /\ \A i \in Handles(arena) :
          expands[i + 1] > (IF i = root THEN 1 ELSE 0)
              => At(arena, i).sims > THRESHOLD

\* C6 witness: the loop is about to expand a leaf below the root, whose sims
\* is just above the threshold.
C6_Witness ==
    /\ pc = "expand"
    /\ leaf # root
    /\ At(arena, leaf).sims = THRESHOLD + 1

\* C7 as claimed: no node is expanded twice (stated for searches started on
\* a state that has a legal turn).
C7_ExpandedAtMostOnce ==
    GameTurns(game) # <<>> => \A i \in Handles(arena) : expands[i + 1] <= 1

\* C7 as amended: a node whose state has a legal turn is expanded at most
\* once; a leaf whose state has none (a terminal state) is expanded again
\* each time it is selected with sims > THRESHOLD, and no expansion of it
\* adds a child.  A node's children are exactly those of its one expansion.
C7_ExpandedOnceUnlessNoTurns ==
    \A i \in Handles(arena) :
        LET n == At(arena, i) IN
        /\ GameTurns(n.state) # <<>> => expands[i + 1] <= 1
        /\ Len(n.children) =
              (IF expands[i + 1] > 0 THEN Len(GameTurns(n.state)) ELSE 0)

\* C7 witness: a node below the root was expanded once and has been
\* simulated through again in later iterations.
C7_Witness ==
    \E i \in Handles(arena) :
        /\ i # root
        /\ expands[i + 1] = 1
        /\ At(arena, i).children # <<>>
        /\ At(arena, i).sims >= THRESHOLD + 3
        /\ pc = "loop"

\* C8: the root, handle 0, is the one node with the sentinel parent and no
\* turn; every other node has an existing node as parent and a turn.
C8_OneRoot ==
    arena # <<>> =>
        /\ At(arena, root).parent = USIZE_MAX
        /\ At(arena, root).action = None
        /\ \A i \in Handles(arena) \ {root} :
              /\ At(arena, i).parent # USIZE_MAX
              /\ At(arena, i).parent \in Handles(arena)
              /\ At(arena, i).action # None

\* C8 witness: the tree holds nodes two levels below the root.
C8_Witness ==
    \E i \in Handles(arena) :
        /\ At(arena, i).parent # USIZE_MAX
        /\ At(arena, i).parent # root

\* C9: in every tree state between the operations of the loop (backprop is
\* not halfway up its walk), a node with sims = 0 has priority +infinity and
\* a node with sims > 0 a finite one; and each step of select()'s descent
\* from a node with a child of sims = 0 goes to a child with sims = 0.
C9_UnvisitedFirst ==
    /\ pc # "backprop" =>
          \A i \in Handles(arena) \ {root} :
              LET n == At(arena, i)
                  p == Priority(n, At(arena, n.parent).sims)
              IN  /\ n.sims = 0 => p = INFINITY
                  /\ n.sims > 0 => p < INFINITY
    /\ (pc = "select" /\ \E c \in Range(At(arena, node).children) :
                            At(arena, c).sims = 0)
          => At(arena, SelectChild(arena, node)).sims = 0

\* C9 witness: select() stands at a node with an unvisited child placed
\* before a visited one and after another visited one.
C9_Witness ==
    /\ pc = "select"
    /\ Len(At(arena, node).children) = 3
    /\ At(arena, At(arena, node).children[1]).sims > 0
    /\ At(arena, At(arena, node).children[2]).sims = 0
    /\ At(arena, At(arena, node).children[3]).sims > 0

\* C10: with at least two root children, after k completed iterations the
\* root's sims is k, and so is the sum of sims of the root's children.
C10_RootSimsIsIterations ==
    (pc = "loop" /\ Len(RootKids) >= 2) =>
        /\ At(arena, root).sims = iters
        /\ SumSims(arena, RootKids) = iters

\* C10 witness: several iterations are complete and the tree has grown
\* below the root's children.
C10_Witness ==
    /\ pc = "loop"
    /\ iters >= 6
    /\ Len(RootKids) >= 2
    /\ Len(arena) > 1 + Len(RootKids)

\* C11: on a state with no legal turn run() never returns a turn and ends in
\* a panic: when the state is not over, before any iteration completes (in
\* the first playout, or in the final choice if the budget is spent by
\* then); when it is over, in the final choice, after the budget is spent.
C11_NoTurnsPanics ==
    /\ [](GameTurns(game) = <<>> => pc # "done" /\ result = None)
    /\ []((GameTurns(game) = <<>> /\ ~GameOver(game)) => iters = 0)
    /\ []((GameTurns(game) = <<>> /\ GameOver(game) /\ pc = "panic")
             => ~InBudget(elapsed))
    /\ (GameTurns(game) = <<>>) ~> (pc = "panic")

\* C11 witness: run() has panicked on a state that is over, after several
\* iterations on the childless root, which was expanded again on the way.
C11_Witness ==
    /\ pc = "panic"
    /\ GameOver(game)
    /\ iters >= THRESHOLD + 2
    /\ expands[root + 1] >= 2
    /\ At(arena, root).children = <<>>

\* C11 witness of the other case: run() has panicked in the first playout
\* on a state that is not over and has no legal turn.
C11_WitnessNotOver ==
    pc = "panic" /\ ~GameOver(game) /\ GameTurns(game) = <<>>

\* The game of the search is one whose every play ends, started on a state
\* with a legal turn.
C12_Finite == game.kind # "stuck" /\ GameTurns(game) # <<>>

\* C12: for a game whose every play ends, started on a state with a legal
\* turn, with the clock advancing, run() returns a turn and never panics;
\* an iteration that has begun comes back to the head of the loop, so its
\* select() descent, its playout and its backprop() walk all end; and the
\* loop is left at the first budget check made once the budget is spent, not
\* before.
C12_Terminates ==
    /\ C12_Finite ~> (pc = "done" /\ result \in Range(GameTurns(game)))
    /\ [](C12_Finite => pc # "panic")
    /\ (C12_Finite /\ pc \in {"select", "expand", "simulate", "backprop"})
          ~> (pc = "loop")
    /\ [][(C12_Finite /\ pc = "loop")
             => (pc' = "loop" \/ pc' = (IF InBudget(elapsed) THEN "select"
                                                             ELSE "best"))]_vars

\* C12 witness: run() has returned a turn in a game whose every playout is
\* a tie, after several iterations and once the budget was spent.
C12_Witness ==
    /\ pc = "done"
    /\ game.kind = "drawn"
    /\ iters >= 5
    /\ ~InBudget(elapsed)
    /\ result \in Range(GameTurns(game))

\* The priority select() computes for node i (mcts.rs lines 102-105).
PriorityOf(i) == Priority(At(arena, i), At(arena, At(arena, i).parent).sims)

\* The k-th of the children cs is one of the highest priority.
IsMaxPriorityAt(cs, k) ==
    \A j \in 1..Len(cs) : PriorityOf(cs[j]) <= PriorityOf(cs[k])

\* C13 as stated: the node select() has descended into is, among its
\* parent's children of maximal priority, the first.
C13_FirstOfTies ==
    (pc = "select" /\ node # root) =>
        LET cs == At(arena, At(arena, node).parent).children
        IN  \E k \in 1..Len(cs) :
                /\ cs[k] = node
                /\ IsMaxPriorityAt(cs, k)
                /\ \A j \in 1..(k - 1) : ~IsMaxPriorityAt(cs, j)

\* C13 as the code has it: the node select() has descended into is, among
\* its parent's children of maximal priority (several with sims = 0, all at
\* INFINITY, included), the last.
C13_LastOfTies ==
    (pc = "select" /\ node # root) =>
        LET cs == At(arena, At(arena, node).parent).children
        IN  \E k \in 1..Len(cs) :
                /\ cs[k] = node
                /\ IsMaxPriorityAt(cs, k)
                /\ \A j \in (k + 1)..Len(cs) : ~IsMaxPriorityAt(cs, j)

\* C13 witness: select() has descended into the second of three children,
\* the first two never simulated (both at INFINITY) and the third simulated.
C13_Witness ==
    /\ pc = "select"
    /\ node # root
    /\ LET cs == At(arena, At(arena, node).parent).children
       IN  /\ Len(cs) = 3
           /\ cs[2] = node
           /\ At(arena, cs[1]).sims = 0
           /\ At(arena, cs[2]).sims = 0
           /\ At(arena, cs[3]).sims > 0

\* C13 witness of a finite tie: select() has descended into a child whose
\* earlier sibling has the same finite priority.
C13_WitnessFinite ==
    /\ pc = "select"
    /\ node # root
    /\ PriorityOf(node) < INFINITY
    /\ LET cs == At(arena, At(arena, node).parent).children
       IN  \E k \in 2..Len(cs) :
               cs[k] = node /\ PriorityOf(cs[k - 1]) = PriorityOf(node)

\* C14: in every tree state, a node that has children has one child per
\* legal turn of its state, the k-th child holding the k-th turn as action,
\* the node as parent and the node's state with that turn played as state;
\* no step changes the state stored in a node, and the nodes a step adds to
\* the arena have wins = 0 and sims = 0.
C14_ExpansionStructure ==
    /\ [](\A i \in Handles(arena) :
             LET n  == At(arena, i)
                 ts == GameTurns(n.state)
             IN  n.children # <<>> =>
                     /\ Len(n.children) = Len(ts)
                     /\ \A k \in 1..Len(ts) :
                            LET c == At(arena, n.children[k])
                            IN  /\ c.action = ts[k]
                                /\ c.parent = i
                                /\ c.state = GamePlay(n.state, ts[k]))
    /\ [][/\ Len(arena') >= Len(arena)
          /\ \A i \in Handles(arena) : At(arena', i).state = At(arena, i).state
          /\ \A i \in Handles(arena') \ Handles(arena) :
                 At(arena', i).wins = 0 /\ At(arena', i).sims = 0]_vars

\* C14 witness: a leaf below the root was expanded into three children in
\* the loop, and one of them is about to be simulated.
C14_Witness ==
    /\ pc = "simulate"
    /\ leaf # USIZE_MAX
    /\ At(arena, leaf).parent \notin {root, USIZE_MAX}
    /\ LET p == At(arena, At(arena, leaf).parent)
       IN  /\ Len(p.children) = 3
           /\ leaf \in Range(p.children)
           /\ \A k \in 1..3 : At(arena, p.children[k]).sims = 0
           /\ At(arena, leaf).state # p.state

\* Node i is on the parent chain of arena a that starts at node from and
\* ends at the root.
RECURSIVE OnChain(_, _, _)
OnChain(a, from, i) ==
    /\ from # USIZE_MAX
    /\ (from = i \/ OnChain(a, At(a, from).parent, i))

\* C15: when backprop(leaf, winner) has finished its walk, exactly the nodes
\* on the parent chain from leaf up to the root have changed: each has sims
\* one higher than when backprop was called, and wins one higher if and
\* only if the effective winner (the playout's winner, or the root's player
\* for a tie) is not the player of that node's state; so after a tie the
\* root's wins are as before.
C15_BackpropChain ==
    (pc = "backprop" /\ idx = USIZE_MAX) =>
        LET w == IF winner = None THEN GamePlayer(At(before, root).state)
                                  ELSE winner
        IN  /\ Len(arena) = Len(before)
            /\ \A i \in Handles(arena) :
                   LET n == At(arena, i)
                       b == At(before, i)
                   IN  IF OnChain(before, leaf, i)
                       THEN /\ n.sims = b.sims + 1
                            /\ n.wins = b.wins
                                 + (IF w # GamePlayer(b.state) THEN 1 ELSE 0)
                       ELSE n = b
            /\ OnChain(before, leaf, root)
            /\ winner = None => At(arena, root).wins = At(before, root).wins

\* C15 witness: backprop has finished its walk after a tie, from a leaf two
\* levels or more below the root, in a tree with nodes off the chain, and a
\* node on the chain was credited a win.
C15_Witness ==
    /\ pc = "backprop"
    /\ idx = USIZE_MAX
    /\ winner = None
    /\ At(arena, leaf).parent \notin {root, USIZE_MAX}
    /\ \E i \in Handles(arena) : ~OnChain(before, leaf, i)
    /\ \E i \in Handles(arena) :
           OnChain(before, leaf, i) /\ At(arena, i).wins = At(before, i).wins + 1

\* C15 witness of a decided playout: backprop has finished its walk for a
\* winner, and the root was credited a win.
C15_WitnessWinner ==
    /\ pc = "backprop"
    /\ idx = USIZE_MAX
    /\ winner # None
    /\ leaf # root
    /\ At(arena, root).wins = At(before, root).wins + 1

\* Node i of the arena keeps its state, parent, action and children in the step.
SameStructure(i) ==
    /\ At(arena', i).idx = At(arena, i).idx
    /\ At(arena', i).state = At(arena, i).state
    /\ At(arena', i).parent = At(arena, i).parent
    /\ At(arena', i).action = At(arena, i).action
    /\ At(arena', i).children = At(arena, i).children

\* Node i of the arena keeps its wins and sims in the step.
SameStatistics(i) ==
    /\ At(arena', i).wins = At(arena, i).wins
    /\ At(arena', i).sims = At(arena, i).sims

\* C16: a step outside backprop() changes no node's wins or sims; a round of
\* backprop() changes only the node it stands on, which is on the parent
\* chain of the simulated node, so nodes off the chain keep their
\* statistics; and the steps of select(), of the playout and of backprop()
\* add no node and change no node's state, parent, action or children.
C16_Frame ==
    [][/\ pc # "backprop" =>
             /\ Len(arena') >= Len(arena)
             /\ \A i \in Handles(arena) : SameStatistics(i)
       /\ pc = "backprop" =>
             /\ idx # USIZE_MAX => OnChain(before, leaf, idx)
             /\ \A i \in Handles(arena) \ {idx} : At(arena', i) = At(arena, i)
             /\ \A i \in Handles(arena) :
                    ~OnChain(before, leaf, i) => At(arena', i) = At(before, i)
       /\ pc \in {"select", "simulate", "backprop"} =>
             /\ Len(arena') = Len(arena)
             /\ \A i \in Handles(arena) : SameStructure(i)]_vars

\* C16 witness: backprop() is half way up the chain of a leaf two levels
\* below the root, past nodes it has changed, in a tree with simulated nodes
\* off the chain.
C16_Witness ==
    /\ pc = "backprop"
    /\ idx \notin {leaf, USIZE_MAX}
    /\ idx # root
    /\ At(arena, leaf).sims = At(before, leaf).sims + 1
    /\ \E i \in Handles(arena) :
           /\ ~OnChain(before, leaf, i)
           /\ At(arena, i).sims > 0
           /\ At(arena, i) = At(before, i)

\* C17: in an iteration, select()'s leaf with sims <= THRESHOLD is simulated
\* itself; a leaf with sims > THRESHOLD is expanded, and then one of the
\* children just created for it is simulated, or the leaf itself when none
\* was created; the playout starts from that node's state and backprop()
\* starts at that same node.  The steps are run()'s: those of the clock
\* (elapsed changes) are left aside.
C17_SimulatedNode ==
    [][elapsed' = elapsed =>
       /\ (pc = "select" /\ pc' # "select") =>
             /\ leaf' = node
             /\ At(arena, node).children = <<>>
             /\ IF At(arena, node).sims <= THRESHOLD
                THEN pc' = "simulate" /\ state' = At(arena, leaf').state
                ELSE pc' = "expand"
       /\ pc = "expand" =>
             /\ pc' = "simulate"
             /\ At(arena, leaf).sims > THRESHOLD
             /\ state' = At(arena', leaf').state
             /\ IF Len(arena') > Len(arena)
                THEN /\ leaf' \in Handles(arena') \ Handles(arena)
                     /\ leaf' \in Range(At(arena', leaf).children)
                     /\ At(arena', leaf').parent = leaf
                ELSE leaf' = leaf
       /\ pc = "simulate" =>
             /\ leaf' = leaf
             /\ pc' \in {"simulate", "backprop", "panic"}
             /\ pc' = "backprop" => idx' = leaf
       /\ (pc = "backprop" /\ pc' = "backprop") => leaf' = leaf]_vars

\* C17 witness: backprop() starts at a child just created by the expansion
\* of a leaf below the root.
C17_Witness ==
    /\ pc = "backprop"
    /\ idx = leaf
    /\ At(arena, leaf).sims = 0
    /\ At(arena, leaf).parent \notin {root, USIZE_MAX}
    /\ At(arena, At(arena, leaf).parent).sims > THRESHOLD
    /\ Len(At(arena, At(arena, leaf).parent).children) >= 2

\* C17 witness of a leaf simulated as it is: backprop() starts at a leaf
\* with 0 < sims <= THRESHOLD.
C17_WitnessDirect ==
    /\ pc = "backprop"
    /\ idx = leaf
    /\ At(arena, leaf).sims \in 1..THRESHOLD
    /\ At(arena, leaf).children = <<>>

\* C17 witness of an expansion without children: backprop() starts at a
\* leaf with sims > THRESHOLD, expanded to nothing.
C17_WitnessNoChildren ==
    /\ pc = "backprop"
    /\ idx = leaf
    /\ At(arena, leaf).sims > THRESHOLD
    /\ At(arena, leaf).children = <<>>
    /\ expands[leaf + 1] >= 1

\* C18: between iterations, no node has a child with sims >= 2 while another
\* of its children has sims = 0.
C18_BreadthFirst ==
    pc = "loop" =>
        \A i \in Handles(arena) :
            LET cs == At(arena, i).children
            IN  \A j, k \in 1..Len(cs) :
                    ~(At(arena, cs[j]).sims >= 2 /\ At(arena, cs[k]).sims = 0)

\* C18 witness: between iterations, a node below the root has three
\* children, the second (picked at random after the expansion) and the third
\* simulated once and the first not yet, and the root has a child simulated
\* twice or more.
C18_Witness ==
    /\ pc = "loop"
    /\ \E i \in Handles(arena) \ {root} :
           LET cs == At(arena, i).children
           IN  /\ Len(cs) = 3
               /\ At(arena, cs[1]).sims = 0
               /\ At(arena, cs[2]).sims = 1
               /\ At(arena, cs[3]).sims = 1
    /\ \E k \in 1..Len(RootKids) : At(arena, RootKids[k]).sims >= 2

\* C19: between iterations, every node below the root that has children has
\* sims = THRESHOLD + 1 + the sum of its children's sims (it was simulated
\* itself THRESHOLD + 1 times, then expanded the first time it was selected
\* with that many), and every node below the root has at most its parent's
\* sims.
C19_SimsAccounting ==
    pc = "loop" =>
        \A i \in Handles(arena) \ {root} :
            LET n == At(arena, i)
            IN  /\ n.children # <<>> =>
                       n.sims = THRESHOLD + 1 + SumSims(arena, n.children)
                /\ n.sims <= At(arena, n.parent).sims

\* C19 witness: between iterations, a node below the root has children
\* simulated three times or more in all, next to a leaf simulated exactly
\* THRESHOLD + 1 times and not expanded yet.
C19_Witness ==
    /\ pc = "loop"
    /\ \E i \in Handles(arena) \ {root} :
           /\ At(arena, i).children # <<>>
           /\ SumSims(arena, At(arena, i).children) >= 3
    /\ \E i \in Handles(arena) \ {root} :
           /\ At(arena, i).children = <<>>
           /\ At(arena, i).sims = THRESHOLD + 1
           /\ GameTurns(At(arena, i).state) # <<>>

\* The player named by entry e of Config c.
EntryPlayer(c, e) == IF e = 1 THEN c.player1[1] ELSE c.player2[1]

\* C20: in Game::main, a turn is asked from the policy of the Config entry
\* that names the player of the current state, and is an answer of that
\* policy for that state; a turn that play() rejects sends the loop back to
\* asking, for the same state, and asking stops only at an accepted play
\* (or a panic); the winner or the tie is printed only for a state that is
\* over, and is that state's winner.
C20_MainLoop ==
    /\ [](main.pc \in {"ask", "play"} => ~GameOver(main.game))
    /\ [](main.printed # "" =>
             /\ GameOver(main.game)
             /\ main.who = GameWinner(main.game)
             /\ (main.printed = "tie") = (main.who = None))
    /\ [][/\ (main.pc = "ask" /\ main'.pc = "play") =>
                /\ main'.asked \in {1, 2}
                /\ EntryPlayer(main.config, main'.asked) = GamePlayer(main.game)
                /\ main'.turn \in PolicyTurns(PolicyOf(main.config, main'.asked),
                                              main.game)
                /\ main'.game = main.game
          /\ (main.pc = "play" /\ ~GamePlayOk(main.game, main.turn)) =>
                /\ main'.pc = "ask"
                /\ main'.game = main.game
          /\ (main.pc \in {"ask", "play"} /\ main'.pc \notin {"ask", "play", "panic"}) =>
                /\ main.pc = "play"
                /\ GamePlayOk(main.game, main.turn)
                /\ main'.pc = "check"
                /\ main'.game = GamePlay(main.game, main.turn)
          /\ main'.printed # main.printed =>
                /\ GameOver(main.game)
                /\ main'.game = main.game]_vars

\* C20 witness: the second entry's policy was asked for the second player's
\* turn on a state that is not over, and play() is about to reject its answer.
C20_Witness ==
    /\ main.pc = "play"
    /\ main.asked = 2
    /\ GamePlayer(main.game) = main.config.player2[1]
    /\ ~GamePlayOk(main.game, main.turn)
    /\ main.game.pile >= 1

\* C20 witness of the report: a tie was printed for a state that is over.
C20_WitnessReport ==
    /\ main.pc = "end"
    /\ main.printed = "tie"
    /\ GameOver(main.game)

\* C20 witness of a winner: the winner was printed for a state that is over.
C20_WitnessWinner ==
    /\ main.pc = "end"
    /\ main.printed = "winner"
    /\ main.who = GameWinner(main.game)

====
